---- MODULE Spec2Model ----
(***************************************************************************)
(* A model of generate_sitemaps.py: base-URL discovery, the two file       *)
(* collectors, the sitemap writer and the run of main().                   *)
(*                                                                         *)
(* Text is modelled character by character: a Python str is a sequence of  *)
(* one-character strings, so that strip, replace, split, lower, sort and   *)
(* urljoin are computed the way the code computes them.                    *)
(***************************************************************************)
EXTENDS Integers, Sequences, FiniteSets, TLC

(***************************************************************************)
(* Characters.                                                             *)
(***************************************************************************)

\* The characters of the model in code-point order (str comparison in
\* list.sort() and sorted() is by code point).
CodeOrder ==
    << "\t", "\n", "\r", " ", "#", "-", ".", "/", ":", "?",
       "A", "B", "C", "D", "E", "F", "G", "H", "I", "J", "K", "L", "M",
       "N", "O", "P", "Q", "R", "S", "T", "U", "V", "W", "X", "Y", "Z",
       "\\",
       "a", "b", "c", "d", "e", "f", "g", "h", "i", "j", "k", "l", "m",
       "n", "o", "p", "q", "r", "s", "t", "u", "v", "w", "x", "y", "z" >>

Ord(c) == CHOOSE i \in 1..Len(CodeOrder) : CodeOrder[i] = c

UpperCase == 11..36

\* str.lower() on one character.
LowerChar(c) ==
    IF Ord(c) \in UpperCase THEN CodeOrder[Ord(c) + 27] ELSE c

IsAlpha(c) == Ord(c) \in UpperCase \/ Ord(c) >= 38

(***************************************************************************)
(* str methods.                                                            *)
(***************************************************************************)

Lower(s) == [i \in 1..Len(s) |-> LowerChar(s[i])]

StartsWith(s, p) == Len(s) >= Len(p) /\ SubSeq(s, 1, Len(p)) = p

EndsWith(s, p) == Len(s) >= Len(p) /\ SubSeq(s, Len(s) - Len(p) + 1, Len(s)) = p

Drop(s, n) == SubSeq(s, n + 1, Len(s))

RECURSIVE LStripSet(_, _)
LStripSet(s, cs) ==
    IF s # <<>> /\ Head(s) \in cs THEN LStripSet(Tail(s), cs) ELSE s

RECURSIVE RStripSet(_, _)
RStripSet(s, cs) ==
    IF s # <<>> /\ s[Len(s)] \in cs
    THEN RStripSet(SubSeq(s, 1, Len(s) - 1), cs)
    ELSE s

WhiteSpace == {" ", "\t", "\n", "\r"}

\* s.strip()
Strip(s) == RStripSet(LStripSet(s, WhiteSpace), WhiteSpace)

\* s.strip(ch)
StripChar(s, ch) == RStripSet(LStripSet(s, {ch}), {ch})

\* s.replace(old, ""): every non-overlapping occurrence, left to right.
RECURSIVE RemoveAll(_, _)
RemoveAll(s, old) ==
    IF s = <<>> THEN <<>>
    ELSE IF StartsWith(s, old) THEN RemoveAll(Drop(s, Len(old)), old)
    ELSE <<Head(s)>> \o RemoveAll(Tail(s), old)

\* s.replace(a, b) for single characters.
ReplaceChar(s, a, b) == [i \in 1..Len(s) |-> IF s[i] = a THEN b ELSE s[i]]

\* Index of the first occurrence of ch in s, 0 when there is none.
RECURSIVE FindFrom(_, _, _)
FindFrom(s, ch, i) ==
    IF i > Len(s) THEN 0
    ELSE IF s[i] = ch THEN i
    ELSE FindFrom(s, ch, i + 1)

Find(s, ch) == FindFrom(s, ch, 1)

\* Index of the first character of s that is in cs, 0 when there is none.
RECURSIVE FindAnyFrom(_, _, _)
FindAnyFrom(s, cs, i) ==
    IF i > Len(s) THEN 0
    ELSE IF s[i] \in cs THEN i
    ELSE FindAnyFrom(s, cs, i + 1)

\* Index of the last occurrence of ch in s, 0 when there is none.
RECURSIVE RFindFrom(_, _, _)
RFindFrom(s, ch, i) ==
    IF i < 1 THEN 0
    ELSE IF s[i] = ch THEN i
    ELSE RFindFrom(s, ch, i - 1)

RFind(s, ch) == RFindFrom(s, ch, Len(s))

Contains(s, ch) == Find(s, ch) # 0

\* s.split(ch): the pieces between the separators, empty pieces kept.
RECURSIVE Split(_, _)
Split(s, ch) ==
    LET i == Find(s, ch)
    IN  IF i = 0 THEN <<s>>
        ELSE <<SubSeq(s, 1, i - 1)>> \o Split(Drop(s, i), ch)

\* sep.join(parts)
RECURSIVE Join(_, _)
Join(parts, sep) ==
    IF parts = <<>> THEN <<>>
    ELSE IF Len(parts) = 1 THEN parts[1]
    ELSE parts[1] \o sep \o Join(Tail(parts), sep)

\* s.splitlines(): breaks at \n, \r and \r\n; no empty last line.
RECURSIVE SplitLines(_)
SplitLines(s) ==
    IF s = <<>> THEN <<>>
    ELSE LET i == FindAnyFrom(s, {"\n", "\r"}, 1)
         IN  IF i = 0 THEN <<s>>
             ELSE LET n == IF s[i] = "\r" /\ i < Len(s) /\ s[i + 1] = "\n"
                           THEN i + 1 ELSE i
                  IN  <<SubSeq(s, 1, i - 1)>> \o SplitLines(Drop(s, n))

\* The non-empty strings of a list, in order.
RECURSIVE NonEmpty(_)
NonEmpty(parts) ==
    IF parts = <<>> THEN <<>>
    ELSE IF Head(parts) = <<>> THEN NonEmpty(Tail(parts))
    ELSE <<Head(parts)>> \o NonEmpty(Tail(parts))

Range(f) == {f[i] : i \in DOMAIN f}

\* a < b in str order (code points, a proper prefix first).
RECURSIVE StrLess(_, _)
StrLess(a, b) ==
    IF b = <<>> THEN FALSE
    ELSE IF a = <<>> THEN TRUE
    ELSE IF Head(a) = Head(b) THEN StrLess(Tail(a), Tail(b))
    ELSE Ord(Head(a)) < Ord(Head(b))

\* sorted(set(S)) for a finite set of strings.
RECURSIVE SortedSet(_)
SortedSet(S) ==
    IF S = {} THEN <<>>
    ELSE LET m == CHOOSE x \in S : \A y \in S \ {x} : StrLess(x, y)
         IN  <<m>> \o SortedSet(S \ {m})

(***************************************************************************)
(* Base URL discovery.                                                     *)
(***************************************************************************)

HTTPS == << "h", "t", "t", "p", "s", ":", "/", "/" >>
HTTP == << "h", "t", "t", "p", ":", "/", "/" >>
GITHUB_IO == << ".", "g", "i", "t", "h", "u", "b", ".", "i", "o", "/" >>
EXAMPLE_COM ==
    HTTPS \o << "e", "x", "a", "m", "p", "l", "e", ".", "c", "o", "m", "/" >>

\* The first line that is neither blank nor a comment, cleaned; "" if none.
RECURSIVE first_token(_)
first_token(lines) ==
    IF lines = <<>> THEN <<>>
    ELSE LET line == Strip(Head(lines))
         IN  IF line = <<>> \/ StartsWith(line, <<"#">>)
             THEN first_token(Tail(lines))
             ELSE StripChar(Strip(RemoveAll(RemoveAll(line, HTTPS), HTTP)), "/")

\* cn: the CNAME file, [exists, text].
read_cname(cn) ==
    IF ~cn.exists THEN <<>>
    ELSE first_token(SplitLines(Strip(cn.text)))

\* slug: os.getenv("GITHUB_REPOSITORY", ""), so unset reads as "".
\* A variant that splits the slug on its last "/" (rsplit) instead of its first.
github_pages_url_rsplit(slug) ==
    LET i == RFind(slug, "/")
    IN  HTTPS \o SubSeq(slug, 1, i - 1) \o GITHUB_IO \o Drop(slug, i) \o <<"/">>

github_pages_url(slug) ==
    LET i == Find(slug, "/")
    IN  HTTPS \o SubSeq(slug, 1, i - 1) \o GITHUB_IO \o Drop(slug, i) \o <<"/">>

\* A variant that consults GITHUB_REPOSITORY before the CNAME file.
discover_base_url_env_first(cn, slug) ==
    IF slug # <<>> /\ Contains(slug, "/") THEN github_pages_url(slug)
    ELSE IF read_cname(cn) # <<>> THEN HTTPS \o read_cname(cn) \o <<"/">>
    ELSE EXAMPLE_COM

discover_base_url(cn, slug) ==
    LET cname == read_cname(cn)
    IN  IF cname # <<>> THEN HTTPS \o cname \o <<"/">>
        ELSE IF slug # <<>> /\ Contains(slug, "/") THEN github_pages_url(slug)
        ELSE EXAMPLE_COM

(***************************************************************************)
(* Paths and the file system.                                              *)
(*                                                                         *)
(* A path is the sequence of its parts (pathlib's Path.parts); an absolute *)
(* path starts with the anchor "/".  The file system is a set of entries   *)
(* [path, kind] with kind "file" or "dir"; the anchor always exists.       *)
(***************************************************************************)

Anchor == << "/" >>

\* The parts pathlib keeps of a path string: "" and "." segments are dropped,
\* ".." is kept.
RECURSIVE DropDots(_)
DropDots(segs) ==
    IF segs = <<>> THEN <<>>
    ELSE IF Head(segs) \in {<<>>, <<".">>} THEN DropDots(Tail(segs))
    ELSE <<Head(segs)>> \o DropDots(Tail(segs))

\* repo_root / folder: an absolute folder replaces the root.
PathJoin(base, folder) ==
    IF StartsWith(folder, <<"/">>)
    THEN <<Anchor>> \o DropDots(Split(folder, "/"))
    ELSE base \o DropDots(Split(folder, "/"))

IsDirAt(p, fs) == p = <<Anchor>> \/ [path |-> p, kind |-> "dir"] \in fs

IsFileAt(p, fs) == [path |-> p, kind |-> "file"] \in fs

Missing == <<>>

\* The entry a path names, ".." followed through the directories that exist;
\* Missing when a component does not exist.
RECURSIVE ResolveFrom(_, _, _)
ResolveFrom(stack, rest, fs) ==
    IF rest = <<>> THEN stack
    ELSE IF Head(rest) = <<".", ".">>
    THEN IF ~IsDirAt(stack, fs) THEN Missing
         ELSE ResolveFrom(IF Len(stack) > 1
                          THEN SubSeq(stack, 1, Len(stack) - 1)
                          ELSE stack,
                          Tail(rest), fs)
    ELSE ResolveFrom(Append(stack, Head(rest)), Tail(rest), fs)

ResolvePath(p, fs) == ResolveFrom(<<Anchor>>, Tail(p), fs)

\* p.exists() and p.is_dir()
is_dir(p, fs) == ResolvePath(p, fs) # Missing /\ IsDirAt(ResolvePath(p, fs), fs)

\* p.is_file()
is_file(p, fs) == ResolvePath(p, fs) # Missing /\ IsFileAt(ResolvePath(p, fs), fs)

\* base.rglob("*"): every entry below base, named by base's own parts
\* followed by the parts below it.
rglob(base, fs) ==
    LET real == ResolvePath(base, fs)
    IN  IF ~is_dir(base, fs) THEN {}
        ELSE {base \o Drop(e.path, Len(real)) :
                e \in {x \in fs : Len(x.path) > Len(real)
                                  /\ SubSeq(x.path, 1, Len(real)) = real}}

\* repo_root.glob("*.html"): the immediate children whose name ends in
\* ".html" (the match is case-sensitive and does not skip dot files).
DOT_HTML == << ".", "h", "t", "m", "l" >>

glob_html(root, fs) ==
    {e.path : e \in {x \in fs : Len(x.path) = Len(root) + 1
                                /\ SubSeq(x.path, 1, Len(root)) = root
                                /\ EndsWith(x.path[Len(x.path)], DOT_HTML)}}

\* Path.suffix of a name.
Suffix(name) ==
    LET i == RFind(name, ".")
    IN  IF 0 < i - 1 /\ i - 1 < Len(name) - 1 THEN Drop(name, i - 1) ELSE <<>>

(***************************************************************************)
(* File collection.                                                        *)
(***************************************************************************)

\* Applied to the path the glob yields, which starts with the parts of the
\* resolved repository root.
is_hidden(path) == \E i \in 1..Len(path) : StartsWith(path[i], <<".">>)

collect_html_pages(root, fs) ==
    SortedSet({p[Len(p)] : p \in {q \in glob_html(root, fs) :
                                    is_file(q, fs) /\ ~is_hidden(q)}})

\* The paths of one configured folder that pass the three filters.
folder_matches(root, folder, exts, fs) ==
    LET base == PathJoin(root, folder)
    IN  {p \in rglob(base, fs) :
            /\ is_file(p, fs)
            /\ ~is_hidden(p)
            /\ Lower(Suffix(p[Len(p)])) \in Range(exts)}

\* p.relative_to(repo_root) raises ValueError unless p starts with the root.
IsRelativeTo(p, root) == StartsWith(p, root)

\* str(p.relative_to(repo_root)).replace("\\", "/")
rel_string(p, root) ==
    ReplaceChar(Join(Drop(p, Len(root)), <<"/">>), "\\", "/")

\* [ok, val]: ok is FALSE when the call raises.
collect_machine_files(root, folders, exts, fs) ==
    LET found == UNION {folder_matches(root, folders[i], exts, fs) :
                            i \in DOMAIN folders}
    IN  IF \E p \in found : ~IsRelativeTo(p, root)
        THEN [ok |-> FALSE, val |-> <<>>]
        ELSE [ok |-> TRUE,
              val |-> SortedSet({rel_string(p, root) : p \in found})]

\* [s.strip() for s in arg.split(",") if s.strip()]
RECURSIVE StripAll(_)
StripAll(parts) ==
    IF parts = <<>> THEN <<>> ELSE <<Strip(Head(parts))>> \o StripAll(Tail(parts))

parse_folders(arg) == NonEmpty(StripAll(Split(arg, ",")))

\* [s.strip().lower() for s in arg.split(",") if s.strip()]
parse_exts(arg) ==
    LET toks == parse_folders(arg)
    IN  [i \in 1..Len(toks) |-> Lower(toks[i])]

(***************************************************************************)
(* urllib.parse.urljoin, as the writer calls it.  The alphabet of the      *)
(* model has no ";", "[", "]" or "+" and no digits, so path parameters,    *)
(* IPv6 hosts and the schemes spelt with them do not occur.                *)
(***************************************************************************)

SchemeChars == {"-", "."}

IsSchemeChar(c) == IsAlpha(c) \/ c \in SchemeChars

\* Schemes of uses_relative and uses_netloc that the alphabet can spell and
\* that the base URL's scheme can equal.
UsesRelative ==
    { <<>>, <<"h", "t", "t", "p">>, <<"h", "t", "t", "p", "s">>,
      <<"f", "t", "p">>, <<"f", "i", "l", "e">> }

UsesNetloc == UsesRelative

\* urlsplit(url, scheme): [scheme, netloc, path, query, fragment], taken
\* off the url one after the other: scheme, netloc, fragment, query.
split_query(scheme, netloc, rest, fragment, q) ==
    [scheme |-> scheme,
     netloc |-> netloc,
     path |-> IF q = 0 THEN rest ELSE SubSeq(rest, 1, q - 1),
     query |-> IF q = 0 THEN <<>> ELSE Drop(rest, q),
     fragment |-> fragment]

split_fragment(scheme, netloc, rest, f) ==
    IF f = 0
    THEN split_query(scheme, netloc, rest, <<>>, Find(rest, "?"))
    ELSE split_query(scheme, netloc, SubSeq(rest, 1, f - 1), Drop(rest, f),
                     Find(SubSeq(rest, 1, f - 1), "?"))

split_netloc(scheme, rest, d) ==
    IF ~StartsWith(rest, <<"/", "/">>)
    THEN split_fragment(scheme, <<>>, rest, Find(rest, "#"))
    ELSE IF d = 0
    THEN split_fragment(scheme, Drop(rest, 2), <<>>, 0)
    ELSE split_fragment(scheme, SubSeq(rest, 3, d - 1), Drop(rest, d - 1),
                        Find(Drop(rest, d - 1), "#"))

split_scheme(url, default, i) ==
    IF /\ i > 1
       /\ IsAlpha(url[1])
       /\ \A k \in 1..(i - 1) : IsSchemeChar(url[k])
    THEN split_netloc(Lower(SubSeq(url, 1, i - 1)), Drop(url, i),
                      FindAnyFrom(Drop(url, i), {"/", "?", "#"}, 3))
    ELSE split_netloc(default, url, FindAnyFrom(url, {"/", "?", "#"}, 3))

\* Leading spaces and control characters are stripped and tabs and line
\* breaks removed before the url is split.
clean_url(url) ==
    RemoveAll(RemoveAll(RemoveAll(LStripSet(url, WhiteSpace),
        <<"\t">>), <<"\r">>), <<"\n">>)

find_colon(url, default) == split_scheme(url, default, Find(url, ":"))

urlsplit(url, default) == find_colon(clean_url(url), default)

\* urlunsplit(parts)
add_fragment(u, url) ==
    IF u.fragment # <<>> THEN url \o <<"#">> \o u.fragment ELSE url

add_query(u, url) ==
    add_fragment(u, IF u.query # <<>> THEN url \o <<"?">> \o u.query ELSE url)

add_scheme(u, url) ==
    add_query(u, IF u.scheme # <<>> THEN u.scheme \o <<":">> \o url ELSE url)

urlunsplit(u) ==
    add_scheme(u,
        IF u.netloc # <<>>
           \/ (u.scheme # <<>> /\ u.scheme \in UsesNetloc
               /\ ~StartsWith(u.path, <<"/", "/">>))
        THEN <<"/", "/">> \o u.netloc
             \o (IF u.path # <<>> /\ u.path[1] # "/" THEN <<"/">> ELSE <<>>)
             \o u.path
        ELSE u.path)

\* The "." and ".." segments of a joined path resolved, left to right.
RECURSIVE remove_dot_segments(_, _)
remove_dot_segments(segs, done) ==
    IF segs = <<>> THEN done
    ELSE IF Head(segs) = <<".", ".">>
    THEN remove_dot_segments(Tail(segs),
             IF done = <<>> THEN <<>> ELSE SubSeq(done, 1, Len(done) - 1))
    ELSE IF Head(segs) = <<".">> THEN remove_dot_segments(Tail(segs), done)
    ELSE remove_dot_segments(Tail(segs), Append(done, Head(segs)))

\* segments[1:-1] = filter(None, segments[1:-1])
filter_middle(segs) ==
    IF Len(segs) < 2 THEN segs
    ELSE <<segs[1]>> \o NonEmpty(SubSeq(segs, 2, Len(segs) - 1))
         \o <<segs[Len(segs)]>>

base_parts(bsplit) ==
    IF bsplit[Len(bsplit)] # <<>>
    THEN SubSeq(bsplit, 1, Len(bsplit) - 1) ELSE bsplit

join_segments(segments, resolved) ==
    Join(IF segments[Len(segments)] \in {<<".">>, <<".", ".">>}
         THEN Append(resolved, <<>>) ELSE resolved,
         <<"/">>)

resolve_segments(segments) ==
    join_segments(segments, remove_dot_segments(segments, <<>>))

or_slash(joined) == IF joined = <<>> THEN <<"/">> ELSE joined

join_path(bpath, path) ==
    or_slash(resolve_segments(
        IF path[1] = "/" THEN Split(path, "/")
        ELSE filter_middle(base_parts(Split(bpath, "/")) \o Split(path, "/"))))

\* urljoin once both urls are split.
join_split(url, b, u) ==
    IF u.scheme # b.scheme \/ u.scheme \notin UsesRelative THEN url
    ELSE IF u.scheme \in UsesNetloc /\ u.netloc # <<>> THEN urlunsplit(u)
    ELSE IF u.path = <<>>
    THEN urlunsplit([u EXCEPT
             !.netloc = IF u.scheme \in UsesNetloc THEN b.netloc ELSE @,
             !.path = b.path,
             !.query = IF u.query = <<>> THEN b.query ELSE @])
    ELSE urlunsplit([u EXCEPT
             !.netloc = IF u.scheme \in UsesNetloc THEN b.netloc ELSE @,
             !.path = join_path(b.path, u.path)])

with_base(url, b) == join_split(url, b, urlsplit(url, b.scheme))

urljoin(base, url) ==
    IF base = <<>> THEN url
    ELSE IF url = <<>> THEN base
    ELSE with_base(url, urlsplit(base, <<>>))

(***************************************************************************)
(* Bounds of the model.                                                    *)
(***************************************************************************)

\* Lines of a CNAME file.
MaxLines == 3

\* Files of the tree under the repository root, next to the fixed ones.
MaxFiles == 2

\* Runs of the generator on the same tree.
MaxRuns == 2

\* Seconds that pass while the generator runs.
MaxClock == 1

(***************************************************************************)
(* The run of main(): the state.                                           *)
(***************************************************************************)

SITEMAP_XML == <<"s", "i", "t", "e", "m", "a", "p", ".", "x", "m", "l">>
AI_SITEMAP_XML == <<"a", "i", "-", "s", "i", "t", "e", "m", "a", "p", ".", "x", "m", "l">>

VARIABLES
    repo_root,      \* Path(args.repo_root).resolve(): the parts of the root
    fs,             \* the file system: a set of [path, kind]
    cname,          \* <root>/CNAME: [exists, readable, text]
    environ,        \* os.getenv("GITHUB_REPOSITORY", "")
    args,           \* [machine_folders, machine_exts], as typed
    clock,          \* datetime.now(timezone.utc), in seconds
    pc,             \* the statement of main() that runs next
    base_url,       \* main's local base_url
    html_pages,     \* main's local html_pages
    machine_files,  \* main's local machine_files
    w,              \* the frame of write_sitemap: [out_name, rel_paths, now, i, stage]
    disk,           \* the content of each output file: a sequence of items
    exit_status,    \* the status the process ended with (-1 while it runs)
    run,            \* the number of this run
    opened,         \* history: the files this run opened for writing, in order
    fs0,            \* history: the file system before the first run
    listed,         \* history: the <loc> lists of each run that ended with 0
    statuses        \* history: the exit status of each finished run

vars == << repo_root, fs, cname, environ, args, clock, pc, base_url,
           html_pages, machine_files, w, disk, exit_status, run, opened,
           fs0, listed, statuses >>

inputs == << repo_root, cname, environ, args, fs0 >>

OutNames == {SITEMAP_XML, AI_SITEMAP_XML}

OutPath(name) == Append(repo_root, name)

\* One thing written to a sitemap file.
Item(tag) == [tag |-> tag, loc |-> <<>>, lastmod |-> 0]

UrlItem(loc, now) == [tag |-> "url", loc |-> loc, lastmod |-> now]

Idle == [out_name |-> <<>>, rel_paths |-> <<>>, now |-> 0, i |-> 0,
         stage |-> "idle"]

\* The call write_sitemap(repo_root, out_name, base_url, rel_paths).
Call(out_name, rel_paths) ==
    [out_name |-> out_name, rel_paths |-> rel_paths, now |-> 0, i |-> 1,
     stage |-> "call"]

\* The <loc> values of a document, in document order.
RECURSIVE Locs(_)
Locs(doc) ==
    IF doc = <<>> THEN <<>>
    ELSE IF Head(doc).tag = "url" THEN <<Head(doc).loc>> \o Locs(Tail(doc))
    ELSE Locs(Tail(doc))

(***************************************************************************)
(* The run of main(): the steps.                                           *)
(***************************************************************************)

\* The process ends: sys.exit(2) from the handler, or falling off main().
Exit(status) ==
    /\ pc' = "exit"
    /\ exit_status' = status
    /\ statuses' = Append(statuses, status)
    /\ w' = Idle

\* base_url = discover_base_url(repo_root); read_text raises on a CNAME
\* that cannot be read or decoded.
Resolve ==
    /\ pc = "resolve"
    /\ IF cname.exists /\ ~cname.readable
       THEN Exit(2) /\ UNCHANGED base_url
       ELSE /\ base_url' = discover_base_url(cname, environ)
            /\ pc' = "pages"
            /\ UNCHANGED << exit_status, statuses, w >>
    /\ UNCHANGED << inputs, fs, clock, html_pages, machine_files, disk, run,
                    opened, listed >>

\* html_pages = collect_html_pages(repo_root)
CollectPages ==
    /\ pc = "pages"
    /\ html_pages' = collect_html_pages(repo_root, fs)
    /\ pc' = "machine"
    /\ UNCHANGED << inputs, fs, clock, base_url, machine_files, w, disk,
                    exit_status, run, opened, listed, statuses >>

\* folders, exts and machine_files = collect_machine_files(...); the next
\* statement is the call of write_sitemap for sitemap.xml.
CollectMachine ==
    /\ pc = "machine"
    /\ LET r == collect_machine_files(repo_root,
                    parse_folders(args.machine_folders),
                    parse_exts(args.machine_exts), fs)
       IN  IF r.ok
           THEN /\ machine_files' = r.val
                /\ pc' = "write_pages"
                /\ w' = Call(SITEMAP_XML, html_pages)
                /\ UNCHANGED << exit_status, statuses >>
           ELSE Exit(2) /\ UNCHANGED machine_files
    /\ UNCHANGED << inputs, fs, clock, base_url, html_pages, disk, run,
                    opened, listed >>

\* now = datetime.now(timezone.utc).strftime(...)
WriteNow ==
    /\ w.stage = "call"
    /\ w' = [w EXCEPT !.now = clock, !.stage = "open"]
    /\ UNCHANGED << inputs, fs, clock, pc, base_url, html_pages,
                    machine_files, disk, exit_status, run, opened, listed,
                    statuses >>

\* A variant that opens the file for appending: what it held is kept.
WriteOpen_append ==
    /\ w.stage = "open"
    /\ fs' = fs \cup {[path |-> OutPath(w.out_name), kind |-> "file"]}
    /\ opened' = Append(opened, w.out_name)
    /\ w' = [w EXCEPT !.stage = "head"]
    /\ UNCHANGED << inputs, clock, pc, base_url, html_pages, machine_files,
                    disk, exit_status, run, listed, statuses >>

\* out_path.open("w"): the file is created or truncated.
WriteOpen ==
    /\ w.stage = "open"
    /\ fs' = fs \cup {[path |-> OutPath(w.out_name), kind |-> "file"]}
    /\ disk' = [disk EXCEPT ![w.out_name] = <<>>]
    /\ opened' = Append(opened, w.out_name)
    /\ w' = [w EXCEPT !.stage = "head"]
    /\ UNCHANGED << inputs, clock, pc, base_url, html_pages, machine_files,
                    exit_status, run, listed, statuses >>

\* The XML declaration and the opening <urlset>.
WriteHead ==
    /\ w.stage = "head"
    /\ disk' = [disk EXCEPT ![w.out_name] = @ \o <<Item("xml"), Item("urlset")>>]
    /\ w' = [w EXCEPT !.stage = IF w.rel_paths = <<>> THEN "foot" ELSE "url"]
    /\ UNCHANGED << inputs, fs, clock, pc, base_url, html_pages,
                    machine_files, exit_status, run, opened, listed,
                    statuses >>

\* A variant that reads the clock again for every entry.
write_url_now_per_entry(frame, base) ==
    UrlItem(urljoin(base, frame.rel_paths[frame.i]), clock)

\* One turn of the loop: the <url> entry of rel_paths[i].
write_url(frame, base) == UrlItem(urljoin(base, frame.rel_paths[frame.i]), frame.now)

WriteUrl ==
    /\ w.stage = "url"
    /\ disk' = [disk EXCEPT ![w.out_name] = Append(@, write_url(w, base_url))]
    /\ w' = [w EXCEPT !.i = @ + 1,
                      !.stage = IF w.i = Len(w.rel_paths) THEN "foot" ELSE "url"]
    /\ UNCHANGED << inputs, fs, clock, pc, base_url, html_pages,
                    machine_files, exit_status, run, opened, listed,
                    statuses >>

\* The closing </urlset>, the file closed, and the return to main().
WriteFoot ==
    /\ w.stage = "foot"
    /\ disk' = [disk EXCEPT ![w.out_name] = Append(@, Item("/urlset"))]
    /\ IF pc = "write_pages"
       THEN pc' = "write_machine" /\ w' = Call(AI_SITEMAP_XML, machine_files)
       ELSE pc' = "summary" /\ w' = Idle
    /\ UNCHANGED << inputs, fs, clock, base_url, html_pages, machine_files,
                    exit_status, run, opened, listed, statuses >>

\* The three print calls; main() returns and the process ends with 0.
Summary ==
    /\ pc = "summary"
    /\ Exit(0)
    /\ listed' = Append(listed, [base |-> base_url,
                                 pages |-> Locs(disk[SITEMAP_XML]),
                                 machine |-> Locs(disk[AI_SITEMAP_XML])])
    /\ UNCHANGED << inputs, fs, clock, base_url, html_pages, machine_files,
                    disk, run, opened >>

\* A system call of the step in progress fails (OSError): the exception
\* leaves main() and the handler exits with 2.
Running == {"resolve", "pages", "machine", "write_pages", "write_machine"}

\* A variant whose handler prints the error and ends the process with 0.
OSError_exit_0 ==
    /\ pc \in Running
    /\ Exit(0)
    /\ UNCHANGED << inputs, fs, clock, base_url, html_pages, machine_files,
                    disk, run, opened, listed >>

OSError ==
    /\ pc \in Running
    /\ Exit(2)
    /\ UNCHANGED << inputs, fs, clock, base_url, html_pages, machine_files,
                    disk, run, opened, listed >>

\* A second passes.  Only write_sitemap reads the clock, so time is let
\* pass where that shows: before the call reads it and between the entries.
Tick ==
    /\ w.stage \in {"call", "url"}
    /\ clock < MaxClock
    /\ clock' = clock + 1
    /\ UNCHANGED << inputs, fs, pc, base_url, html_pages, machine_files, w,
                    disk, exit_status, run, opened, listed, statuses >>

\* The generator is started again on the tree the last run left.
Rerun ==
    /\ pc = "exit"
    /\ run < MaxRuns
    /\ run' = run + 1
    /\ pc' = "resolve"
    /\ exit_status' = -1
    /\ base_url' = <<>>
    /\ html_pages' = <<>>
    /\ machine_files' = <<>>
    /\ opened' = <<>>
    /\ UNCHANGED << inputs, fs, clock, w, disk, listed, statuses >>

Next ==
    \/ Resolve
    \/ CollectPages
    \/ CollectMachine
    \/ WriteNow
    \/ WriteOpen
    \/ WriteHead
    \/ WriteUrl
    \/ WriteFoot
    \/ Summary
    \/ OSError
    \/ Tick
    \/ Rerun

(***************************************************************************)
(* The inputs of a run.                                                    *)
(***************************************************************************)

NoCname == [exists |-> FALSE, readable |-> FALSE, text |-> <<>>]

CnameFile(text) == [exists |-> TRUE, readable |-> TRUE, text |-> text]

\* A CNAME that exists and cannot be read as UTF-8 text.
BadCname == [exists |-> TRUE, readable |-> FALSE, text |-> <<>>]

\* Lines of a CNAME file: blank, comments, hosts with and without a pasted
\* protocol, a path, spaces and slashes around them.
CnameLines ==
    { <<>>, <<"#", " ", "c">>, <<" ", "#", "c">>, <<"a", ".", "b">>, <<" ", "c", ".", "d", " ">>, <<"h", "t", "t", "p", "s", ":", "/", "/", "a", ".", "b", "/">>,
      <<"h", "t", "t", "p", ":", "/", "/">>, <<"/">>, <<"a", ".", "b", "/", "h", "t", "t", "p", ":", "/", "/", "c">>, <<"/", " ", "a", ".", "b", " ", "/">>, <<"a", ".", "b", "/", "/", "p">> }

\* The texts of up to n lines, each line ended by "\n".
RECURSIVE CnameTexts(_)
CnameTexts(n) ==
    IF n = 0 THEN {<<>>}
    ELSE LET shorter == CnameTexts(n - 1)
         IN  shorter \cup {l \o <<"\n">> \o t : l \in CnameLines, t \in shorter}

\* Values of GITHUB_REPOSITORY; "" is also what an unset variable reads as.
Slugs ==
    { <<>>, <<"a", "l", "i", "c", "e">>, <<"a", "l", "i", "c", "e", "/", "s", "i", "t", "e">>, <<"o", "/", "r", "/">>, <<"o", "/">>, <<"/", "r">>, <<"o", "/", "r", "/", "x">> }

ROOT_PLAIN == << Anchor, <<"w">> >>
ROOT_DOTTED == << Anchor, <<".", "c">>, <<"w">> >>

Roots == {ROOT_PLAIN, ROOT_DOTTED}

\* Files that may be in the tree, by their parts below the root.
PageFiles ==
    { << <<"a", ".", "h", "t", "m", "l">> >>, << <<"b", ".", "h", "t", "m", "l">> >>, << <<".", "x", ".", "h", "t", "m", "l">> >>,
      << <<"B", ".", "h", "t", "m", "l">> >>, << <<"a", ":", "b", ".", "h", "t", "m", "l">> >>, << <<"c", ".", "h", "t", "m", "l">>, <<"i", ".", "h", "t", "m", "l">> >> }

DataFiles ==
    { << <<"s">>, <<"n", ".", "m", "d">> >>, << <<"s">>, <<"d", ".", "J", "S", "O", "N">> >>, << <<"s">>, <<"i", ".", "p", "n", "g">> >>,
      << <<"s">>, <<".", "h">>, <<"x", ".", "j", "s", "o", "n">> >>, << <<"s">>, <<"u">>, <<"y", ".", "j", "s", "o", "n">> >>,
      << <<"s">>, <<"a", "\\", ".", "b", ".", "j", "s", "o", "n">> >>, << <<"t", ".", "m", "d">> >> }

\* What exists outside the repository root.
Outside ==
    { [path |-> << Anchor, <<"e">> >>, kind |-> "dir"],
      [path |-> << Anchor, <<"e">>, <<"o", ".", "j", "s", "o", "n">> >>, kind |-> "file"] }

\* The file system with the files F below root: the files, the directories
\* that hold them, the root and its parents, and what is outside.
Tree(root, F) ==
    {[path |-> root \o f, kind |-> "file"] : f \in F}
    \cup {[path |-> root \o SubSeq(f, 1, k), kind |-> "dir"] :
            f \in {g \in F : Len(g) = 2}, k \in {1}}
    \cup {[path |-> root \o SubSeq(f, 1, k), kind |-> "dir"] :
            f \in {g \in F : Len(g) = 3}, k \in {1, 2}}
    \cup {[path |-> SubSeq(root, 1, k), kind |-> "dir"] : k \in 2..Len(root)}
    \cup Outside

Trees(root, U) == {Tree(root, F) : F \in {G \in SUBSET U : Cardinality(G) <= MaxFiles}}

\* --machine-folders and --machine-exts, as typed.
FolderArgs ==
    { <<"s">>, <<"s", ",", "s", "/", "u">>, <<"m", ",", " ", "s", " ", ",", ",">>, <<".">>, <<".", ".">>, <<"/", "e">>, <<"a", ".", "h", "t", "m", "l", ",", "s", "/", ".", "h">> }

ExtArgs == { <<".", "j", "s", "o", "n", ",", ".", "m", "d">>, <<".", "M", "D", ",", " ", ".", "x", "m", "l", ",", ".", "h", "t", "m", "l">> }

Start(root, tree, cn, slug, folders, exts, time) ==
    /\ repo_root = root
    /\ fs = tree
    /\ fs0 = tree
    /\ cname = cn
    /\ environ = slug
    /\ args = [machine_folders |-> folders, machine_exts |-> exts]
    /\ clock = time
    /\ pc = "resolve"
    /\ base_url = <<>>
    /\ html_pages = <<>>
    /\ machine_files = <<>>
    /\ w = Idle
    /\ disk = [n \in OutNames |-> <<>>]
    /\ exit_status = -1
    /\ run = 1
    /\ opened = <<>>
    /\ listed = <<>>
    /\ statuses = <<>>

\* Every CNAME and every GITHUB_REPOSITORY, on a tree of one page.
InitResolve ==
    \E cn \in {NoCname, BadCname} \cup {CnameFile(t) : t \in CnameTexts(MaxLines)},
       slug \in Slugs :
        Start(ROOT_PLAIN, Tree(ROOT_PLAIN, {<< <<"a", ".", "h", "t", "m", "l">> >>}), cn, slug,
              <<"s">>, <<".", "m", "d">>, MaxClock)

\* Every root, tree, folder list and extension list, with no CNAME.
InitCollect ==
    \E root \in Roots, folders \in FolderArgs, exts \in ExtArgs :
        \E tree \in Trees(root, PageFiles \cup DataFiles) :
            Start(root, tree, NoCname, <<"o", "/", "r">>, folders, exts, MaxClock)

\* Runs as a whole: a few of each input, and time that passes.
RunCnames == {NoCname, BadCname, CnameFile(<<"a", ".", "b", "/", "/", "p", "\n">>)}

RunFiles ==
    { << <<"a", ".", "h", "t", "m", "l">> >>, << <<"b", ".", "h", "t", "m", "l">> >>, << <<"a", ":", "b", ".", "h", "t", "m", "l">> >>,
      << <<"s">>, <<"n", ".", "m", "d">> >> }

RunArgs ==
    { [machine_folders |-> <<"s">>, machine_exts |-> <<".", "j", "s", "o", "n", ",", ".", "m", "d">>],
      [machine_folders |-> <<".", ",", "s">>, machine_exts |-> <<".", "m", "d", ",", ".", "x", "m", "l">>],
      [machine_folders |-> <<"/", "e">>, machine_exts |-> <<".", "j", "s", "o", "n">>] }

Init ==
    \E cn \in RunCnames, a \in RunArgs :
        \E tree \in Trees(ROOT_PLAIN, RunFiles) :
            Start(ROOT_PLAIN, tree, cn, <<>>, a.machine_folders,
                  a.machine_exts, 0)

Spec == Init /\ [][Next]_vars

\* The resolver alone, on every CNAME and GITHUB_REPOSITORY.
NextResolve == Resolve

SpecResolve == InitResolve /\ [][NextResolve]_vars

\* A run up to the end of the two collectors, on every tree and argument.
NextCollect ==
    \/ Resolve
    \/ CollectPages
    \/ CollectMachine

SpecCollect == InitCollect /\ [][NextCollect]_vars

(***************************************************************************)
(* Claims about the resolver (SpecResolve).  A state with pc = "pages" is  *)
(* one where discover_base_url has returned base_url.                      *)
(***************************************************************************)

\* A line the scan of the CNAME file skips: blank, or a comment.
Skipped(line) == Strip(line) = <<>> \/ StartsWith(Strip(line), <<"#">>)

HasRealLine(text) ==
    \E i \in 1..Len(SplitLines(text)) : ~Skipped(SplitLines(text)[i])

\* The first line that is neither blank nor a comment.
FirstRealLine(text) ==
    LET ls == SplitLines(text)
    IN  ls[CHOOSE i \in 1..Len(ls) :
              ~Skipped(ls[i]) /\ \A j \in 1..(i - 1) : Skipped(ls[j])]

LeadingProtocolRemoved(line) ==
    IF StartsWith(line, <<"h", "t", "t", "p", "s", ":", "/", "/">>) THEN Drop(line, 8)
    ELSE IF StartsWith(line, <<"h", "t", "t", "p", ":", "/", "/">>) THEN Drop(line, 7)
    ELSE line

EveryProtocolRemoved(line) ==
    RemoveAll(RemoveAll(line, <<"h", "t", "t", "p", "s", ":", "/", "/">>), <<"h", "t", "t", "p", ":", "/", "/">>)

\* What the no-CNAME rule gives for a GITHUB_REPOSITORY value.
SlugUrl(slug) ==
    IF \E i \in 1..Len(slug) : slug[i] = "/"
    THEN LET i == CHOOSE k \in 1..Len(slug) :
                      slug[k] = "/" /\ \A j \in 1..(k - 1) : slug[j] # "/"
         IN  <<"h", "t", "t", "p", "s", ":", "/", "/">> \o SubSeq(slug, 1, i - 1) \o <<".", "g", "i", "t", "h", "u", "b", ".", "i", "o", "/">>
             \o SubSeq(slug, i + 1, Len(slug)) \o <<"/">>
    ELSE <<"h", "t", "t", "p", "s", ":", "/", "/", "e", "x", "a", "m", "p", "l", "e", ".", "c", "o", "m", "/">>

CnameResolved == pc = "pages" /\ cname.exists /\ HasRealLine(cname.text)

\* C1 as stated: with a CNAME that has a real line, the result is
\* https://C/ where C is the first real line with a leading protocol removed
\* and whitespace and slashes stripped, whatever GITHUB_REPOSITORY is.
C1_AsStated ==
    CnameResolved =>
        base_url = <<"h", "t", "t", "p", "s", ":", "/", "/">>
                   \o StripChar(Strip(LeadingProtocolRemoved(
                          Strip(FirstRealLine(cname.text)))), "/")
                   \o <<"/">>

\* C1 amended: C is the first real line, stripped of whitespace, with every
\* occurrence of "https://" and then of "http://" removed, then stripped of
\* whitespace and then of slashes.  If C is not empty the result is
\* https://C/ whatever GITHUB_REPOSITORY and the later lines are; if C is
\* empty the result is that of the no-CNAME rule.
C1_FirstRealLineWins ==
    CnameResolved =>
        LET c == StripChar(Strip(EveryProtocolRemoved(
                     Strip(FirstRealLine(cname.text)))), "/")
        IN  IF c # <<>>
            THEN base_url = <<"h", "t", "t", "p", "s", ":", "/", "/">> \o c \o <<"/">>
            ELSE base_url = SlugUrl(environ)

\* A comment line and a blank line come first, a protocol was pasted, more
\* than one line follows the scan, and GITHUB_REPOSITORY names a repository.
C1_Witness ==
    /\ pc = "pages"
    /\ cname = CnameFile(<<"#", " ", "c", "\n", "\n", "h", "t", "t", "p", "s", ":", "/", "/", "a", ".", "b", "/", "\n">>)
    /\ environ = <<"a", "l", "i", "c", "e", "/", "s", "i", "t", "e">>
    /\ base_url = <<"h", "t", "t", "p", "s", ":", "/", "/", "a", ".", "b", "/">>

\* C2: with no CNAME the resolver does not raise and returns
\* https://<owner>.github.io/<repo>/ when GITHUB_REPOSITORY has a "/" (owner
\* before the first one, repo all after it), else https://example.com/.
C2_NoCname ==
    (~cname.exists /\ pc # "resolve") =>
        pc = "pages" /\ base_url = SlugUrl(environ)

C2_Witness ==
    /\ pc = "pages"
    /\ ~cname.exists
    /\ environ = <<"a", "l", "i", "c", "e", "/", "s", "i", "t", "e">>
    /\ base_url = <<"h", "t", "t", "p", "s", ":", "/", "/", "a", "l", "i", "c", "e", ".", "g", "i", "t", "h", "u", "b", ".", "i", "o", "/", "s", "i", "t", "e", "/">>

\* C3: the base URL starts with https:// and ends with exactly one "/".
C3_BaseUrlShape ==
    pc = "pages" =>
        /\ StartsWith(base_url, <<"h", "t", "t", "p", "s", ":", "/", "/">>)
        /\ base_url[Len(base_url)] = "/"
        /\ base_url[Len(base_url) - 1] # "/"

(***************************************************************************)
(* Claims about the collectors (SpecCollect).                              *)
(***************************************************************************)

PagesCollected == pc \in {"machine", "write_pages", "write_machine", "summary"}

MachineCollected == pc \in {"write_pages", "write_machine", "summary"}

\* Sorted in str order with no element twice.
IsSorted(l) == \A i \in 1..(Len(l) - 1) : StrLess(l[i], l[i + 1])

Under(path, dir) == Len(path) > Len(dir) /\ SubSeq(path, 1, Len(dir)) = dir

\* The regular files that are children of the root, named *.html and not
\* dot files.
RootHtmlFiles ==
    {e.path[Len(e.path)] :
        e \in {x \in fs : /\ x.kind = "file"
                          /\ Len(x.path) = Len(repo_root) + 1
                          /\ Under(x.path, repo_root)
                          /\ EndsWith(x.path[Len(x.path)], <<".", "h", "t", "m", "l">>)
                          /\ x.path[Len(x.path)][1] # "."}}

\* C5: the page collector returns exactly the sorted names of the regular
\* files that are children of the root, named *.html and not hidden,
\* wherever the root is.
C5_PagesExact ==
    PagesCollected =>
        IsSorted(html_pages) /\ Range(html_pages) = RootHtmlFiles

\* The configured folders that exist and are directories.
ListedDirs ==
    {ResolvePath(PathJoin(repo_root, f), fs) :
        f \in {g \in Range(parse_folders(args.machine_folders)) :
                  is_dir(PathJoin(repo_root, g), fs)}}

\* The root-relative forward-slash paths of the regular files below a listed
\* directory whose final extension, case ignored, is configured; as in the
\* collector's description, a path with a hidden segment does not count.
ListedFiles ==
    {Join(Drop(e.path, Len(repo_root)), <<"/">>) :
        e \in {x \in fs :
                  /\ x.kind = "file"
                  /\ Under(x.path, repo_root)
                  /\ \E d \in ListedDirs : Under(x.path, d)
                  /\ Lower(Suffix(x.path[Len(x.path)]))
                        \in Range(parse_exts(args.machine_exts))
                  /\ \A k \in (Len(repo_root) + 1)..Len(x.path) :
                        x.path[k][1] # "."}}

\* C6: the machine-file collector returns, sorted and without duplicates,
\* exactly the root-relative paths of the files below the listed folders
\* with a configured extension, and a folder that is missing or no directory
\* raises nothing.
C6_MachineExact ==
    /\ MachineCollected =>
          IsSorted(machine_files) /\ Range(machine_files) = ListedFiles
    /\ pc = "exit" => ListedDirs # {}

\* C7: no element of either list has a path segment that starts with ".".
NoHiddenSegment(s) ==
    \A i \in 1..Len(Split(s, "/")) : ~StartsWith(Split(s, "/")[i], <<".">>)

C7_NothingHidden ==
    /\ \A i \in 1..Len(html_pages) : NoHiddenSegment(html_pages[i])
    /\ \A i \in 1..Len(machine_files) : NoHiddenSegment(machine_files[i])

(***************************************************************************)
(* Claims about the writer and the run (Spec).                             *)
(***************************************************************************)

\* C4: every <loc> is the base URL followed by the relative path, has no
\* "//" after the scheme's, no ".." segment, and is below the base URL.
C4_Locations ==
    w.stage \in {"url", "foot"} =>
        \A k \in 1..Len(Locs(disk[w.out_name])) :
            LET loc == Locs(disk[w.out_name])[k]
            IN  /\ loc = base_url \o w.rel_paths[k]
                /\ StartsWith(loc, base_url)
                /\ \A i \in 9..(Len(loc) - 1) :
                      ~(loc[i] = "/" /\ loc[i + 1] = "/")
                /\ \A i \in 1..Len(Split(loc, "/")) :
                      Split(loc, "/")[i] # <<".", ".">>

\* The document write_sitemap writes for a list, with one lastmod.
Document(base, rel_paths, now) ==
    << Item("xml"), Item("urlset") >>
    \o [i \in 1..Len(rel_paths) |-> UrlItem(urljoin(base, rel_paths[i]), now)]
    \o << Item("/urlset") >>

\* The call for sitemap.xml has just returned; so has the one for
\* ai-sitemap.xml.
PagesWritten == pc = "write_machine" /\ w.stage = "call"

MachineWritten == pc = "summary"

\* C8: a call that returns has written the declaration, <urlset>, one <url>
\* per input path in input order, all with the lastmod read once when the
\* call began, and </urlset>; with no input, a <urlset> with no <url>.
C8_Document ==
    /\ PagesWritten =>
          \E t \in 0..clock :
              disk[SITEMAP_XML] = Document(base_url, html_pages, t)
    /\ MachineWritten =>
          \E t \in 0..clock :
              disk[AI_SITEMAP_XML] = Document(base_url, machine_files, t)
    /\ w.stage \in {"url", "foot"} =>
          \A i \in 1..Len(disk[w.out_name]) :
              disk[w.out_name][i].tag = "url"
                  => disk[w.out_name][i].lastmod = w.now

\* Two pages written in order while a second passed, and no machine file.
C8_Witness ==
    /\ pc = "exit"
    /\ exit_status = 0
    /\ html_pages = << <<"a", ".", "h", "t", "m", "l">>, <<"b", ".", "h", "t", "m", "l">> >>
    /\ Locs(disk[SITEMAP_XML])
          = << <<"h", "t", "t", "p", "s", ":", "/", "/", "e", "x", "a", "m", "p", "l", "e", ".", "c", "o", "m", "/", "a", ".", "h", "t", "m", "l">>, <<"h", "t", "t", "p", "s", ":", "/", "/", "e", "x", "a", "m", "p", "l", "e", ".", "c", "o", "m", "/", "b", ".", "h", "t", "m", "l">> >>
    /\ disk[SITEMAP_XML][3].lastmod < clock
    /\ machine_files = <<>>
    /\ disk[AI_SITEMAP_XML] = << Item("xml"), Item("urlset"), Item("/urlset") >>

Complete(doc) == doc # <<>> /\ doc[Len(doc)].tag = "/urlset"

BothWritten ==
    /\ opened = << SITEMAP_XML, AI_SITEMAP_XML >>
    /\ Complete(disk[SITEMAP_XML])
    /\ Complete(disk[AI_SITEMAP_XML])

AllRunsSucceeded == \A k \in 1..Len(statuses) : statuses[k] = 0

OutPaths == {OutPath(n) : n \in OutNames}

\* What holds of every run, whatever it collects: the two files are opened
\* once each and in order, after both lists are collected, and nothing else
\* in the tree is created, renamed or deleted.
WritesOnlyTheTwoFiles ==
    /\ opened \in { <<>>, << SITEMAP_XML >>, << SITEMAP_XML, AI_SITEMAP_XML >> }
    /\ (pc = "exit" /\ exit_status = 0)
          => opened = << SITEMAP_XML, AI_SITEMAP_XML >>
    /\ opened # <<>> => pc \in {"write_pages", "write_machine", "summary", "exit"}
    /\ pc \in {"resolve", "pages", "machine"} => w = Idle
    /\ {e \in fs : e.path \notin OutPaths} = fs0
    /\ \A e \in fs : e.path \in OutPaths => e.kind = "file"

RECURSIVE Without(_, _)
Without(l, S) ==
    IF l = <<>> THEN <<>>
    ELSE IF Head(l) \in S THEN Without(Tail(l), S)
    ELSE <<Head(l)>> \o Without(Tail(l), S)

OutLocs(base) == {urljoin(base, n) : n \in OutNames}

====
